---- MODULE Spec2Model ----
(***************************************************************************)
(* xk6-slack: a k6 extension whose Client posts messages to Slack.         *)
(*                                                                         *)
(* The repository holds two builds of Client:                              *)
(*   - src/slack.go (lines 52-337): Client{api, channel} with              *)
(*     Configure(token, channel), SendMessage(message) and                 *)
(*     SendTestResults(data);                                              *)
(*   - src/unnamed/part_002: Client{token, api, config, dashboardStart,    *)
(*     executionUser} with Configure(token, config, user),                 *)
(*     SendMessage(messageType) and AddTestMetrics(metrics).               *)
(* The variable impl says which build a client instance is; the fields of  *)
(* the other build stay at their zero values.                              *)
(*                                                                         *)
(* Numbers: a JSON number is a rational [n, d]; fmt's %.2f and %.0f round  *)
(* the exact value half-to-even (float64 representation error is not       *)
(* modelled).  The slack-go transport is an external collaborator: a       *)
(* PostMessage call returns one of TransportResults.                       *)
(***************************************************************************)
EXTENDS Integers, Sequences, FiniteSets, TLC

VARIABLES
    impl,             \* "channel" (src/slack.go) or "config" (src/unnamed/part_002)
    api,              \* Client.api: NilApi, or the token slack.New was given
    channel,          \* Client.channel (slack.go)
    token,            \* Client.token (part_002)
    config,           \* Client.config (part_002)
    dashboardStart,   \* Client.dashboardStart (part_002), Unix seconds
    executionUser,    \* Client.executionUser (part_002)
    now,              \* time.Now(), Unix seconds
    data,             \* the value the script holds for SendTestResults / AddTestMetrics
    lastOp,           \* the method called last
    lastArg,          \* its arguments
    lastAt,           \* time.Now() when it was called
    lastErr,          \* the error it returned
    lastPosts,        \* the PostMessage calls it made, in order
    results,          \* SendTestResults' local MetricResults
    configured,       \* history: some Configure call has returned nil
    unconfiguredPosts \* history: PostMessage calls made while api was nil

vars == <<impl, api, channel, token, config, dashboardStart, executionUser, now, data,
          lastOp, lastArg, lastAt, lastErr, lastPosts, results, configured, unconfiguredPosts>>

clientVars == <<api, channel, token, config, dashboardStart, executionUser>>

-----------------------------------------------------------------------------
(* Bounds of the model *)

MaxNow == 5400
TickSeconds == 1800
MaxChecks == 22
MaxCount == 10
MaxMetrics == 22

-----------------------------------------------------------------------------
(* Values *)

NilApi == "<nil>"
NoError == "<nil>"
NilText == "<nil text>"

ErrEmptyToken == "slack token cannot be empty"
ErrEmptyChannel == "slack channel cannot be empty"
ErrNotConfigured == "slack client not configured, call Configure() first"
ErrMarshal == "error marshaling data"
ErrUnmarshal == "error unmarshaling data"

Tokens == {"", "xoxb-A", "xoxb-B"}
Channels == {"", "C-one", "C-two"}
Users == {"", "k6-user"}
Messages == {"", "Start", "run finished"}

TransportResults == {NoError, "channel_not_found"}

Num(n, d) == [t |-> "num", n |-> n, d |-> d]
NotANumber == [t |-> "str", n |-> 0, d |-> 1]
Zero == Num(0, 1)

EmptyMap == [x \in {} |-> 0]

NoResults == [Status |-> "", TestName |-> "", Environment |-> "",
              Metrics |-> EmptyMap, Checks |-> EmptyMap]

\* a DashboardURLs or GraphURLs map is the sequence of its entries (names
\* distinct); the order of the sequence is not the order a range visits
Entry(name, url) == [name |-> name, url |-> url]

ZeroConfig == [SlackChannelID |-> "", DashboardURLs |-> <<>>, GraphURLs |-> <<>>]

-----------------------------------------------------------------------------
(* fmt.Sprintf verbs *)

Abs(x) == IF x < 0 THEN -x ELSE x

\* n/d (n >= 0, d > 0) rounded to an integer, ties to even
RoundHalfEven(n, d) ==
    LET q == n \div d
        r == n % d
    IN  IF 2 * r > d \/ (2 * r = d /\ q % 2 = 1) THEN q + 1 ELSE q

\* %.2f of n/d
Sprintf2f(n, d) ==
    LET h == RoundHalfEven(100 * Abs(n), d)
        frac == h % 100
    IN  (IF n < 0 THEN "-" ELSE "") \o ToString(h \div 100) \o "."
        \o (IF frac < 10 THEN "0" ELSE "") \o ToString(frac)

\* %.0f of n/d
Sprintf0f(n, d) ==
    (IF n < 0 THEN "-" ELSE "") \o ToString(RoundHalfEven(Abs(n), d))

formatDuration(value) == Sprintf2f(value.n, value.d) \o "ms"

-----------------------------------------------------------------------------
(* Slack blocks *)

HeaderBlock(text) == [type |-> "header", text |-> text, fields |-> <<>>, url |-> ""]
DividerBlock == [type |-> "divider", text |-> "", fields |-> <<>>, url |-> ""]
TextSection(text) == [type |-> "section", text |-> text, fields |-> <<>>, url |-> ""]
FieldSection(fields) == [type |-> "section", text |-> NilText, fields |-> fields, url |-> ""]

TextPayload(text) == [kind |-> "text", text |-> text, blocks |-> <<>>]
BlocksPayload(blocks) == [kind |-> "blocks", text |-> "", blocks |-> blocks]

Post(ch, payload, ret) == [channel |-> ch, payload |-> payload, ret |-> ret]

-----------------------------------------------------------------------------
(* src/slack.go: K6Data and the input of SendTestResults *)

\* int64 counts are drawn from two lattices: small counts (unit "1") and
\* multiples of 2^BigUnitBits (unit "big"), so that passes + fails can pass
\* 2^63 - 1 and wrap as Go's int64 addition does.
Int64Bits == 64
BigUnitBits == 60
BigLimit == 2 ^ (Int64Bits - 1 - BigUnitBits)

Check(name, passes, fails, unit) ==
    [name |-> name, passes |-> passes, fails |-> fails, unit |-> unit]

\* check.Passes + check.Fails in int64, in the check's unit
AddInt64(a, b, unit) ==
    IF unit = "big" /\ a + b >= BigLimit THEN a + b - 2 * BigLimit ELSE a + b

\* %d of an int64
SprintfD(k, unit) ==
    IF unit = "big" /\ k # 0 THEN ToString(k) \o "*2^" \o ToString(BigUnitBits)
    ELSE ToString(k)

\* data: a value with members "metrics" (metric name -> its "values" map) and
\* "root_group.checks"
ObjectDoc(metrics, checks) ==
    [kind |-> "object", metrics |-> metrics, checks |-> checks, text |-> ""]
\* a Go string holding JSON text, as JSON.stringify(...) hands over
StringDoc(text) == [kind |-> "string", metrics |-> EmptyMap, checks |-> <<>>, text |-> text]
\* nil ("null"), a JSON array ("array"), a function ("func"), an object with a
\* member of the wrong type, such as {"metrics": "none"} ("mistyped")
OtherDoc(kind) == [kind |-> kind, metrics |-> EmptyMap, checks |-> <<>>, text |-> ""]

\* json.Marshal(data): fails on values JSON cannot hold (a function)
MarshalFails(d) == d.kind = "func"

\* json.Unmarshal(jsonData, &k6Data): a JSON object whose members have the
\* declared types decodes; null leaves the zero K6Data; a JSON string,
\* array, or an object with a member of another type is an error
UnmarshalFails(d) == d.kind \in {"string", "array", "mistyped"}

K6DataOf(d) ==
    IF d.kind = "object" THEN [Metrics |-> d.metrics, Checks |-> d.checks]
    ELSE [Metrics |-> EmptyMap, Checks |-> <<>>]

getMetricValue(k6Data, metricName, valueName) ==
    IF /\ metricName \in DOMAIN k6Data.Metrics
       /\ valueName \in DOMAIN k6Data.Metrics[metricName]
       /\ k6Data.Metrics[metricName][valueName].t = "num"
    THEN k6Data.Metrics[metricName][valueName]
    ELSE Zero

Row(label, metric, field, verb) ==
    [label |-> label, metric |-> metric, field |-> field, verb |-> verb]

\* the rows of results.Metrics, in the order the code assigns them
MetricRows == <<
    Row("Response Time (avg)", "http_req_duration", "avg", "ms"),
    Row("Response Time (min)", "http_req_duration", "min", "ms"),
    Row("Response Time (med)", "http_req_duration", "med", "ms"),
    Row("Response Time (max)", "http_req_duration", "max", "ms"),
    Row("Response Time (p90)", "http_req_duration", "p(90)", "ms"),
    Row("Response Time (p95)", "http_req_duration", "p(95)", "ms"),
    Row("Time to First Byte (avg)", "http_req_waiting", "avg", "ms"),
    Row("Connection Time (avg)", "http_req_connecting", "avg", "ms"),
    Row("TLS Handshake (avg)", "http_req_tls_handshaking", "avg", "ms"),
    Row("Sending Time (avg)", "http_req_sending", "avg", "ms"),
    Row("Receiving Time (avg)", "http_req_receiving", "avg", "ms"),
    Row("Blocking Time (avg)", "http_req_blocked", "avg", "ms"),
    Row("Data Received", "data_received", "rate", "KB/s"),
    Row("Data Sent", "data_sent", "rate", "KB/s"),
    Row("Total Requests", "http_reqs", "count", "count"),
    Row("Request Rate", "http_reqs", "rate", "/s"),
    Row("Iterations", "iterations", "count", "count"),
    Row("Iteration Rate", "iterations", "rate", "/s"),
    Row("Virtual Users", "vus", "value", "count"),
    Row("Success Rate", "http_req_failed", "rate", "success") >>

Labels == {MetricRows[i].label : i \in DOMAIN MetricRows}
RowOf(label) == CHOOSE r \in {MetricRows[i] : i \in DOMAIN MetricRows} : r.label = label

KiB == 1024

FormatRow(row, k6Data) ==
    LET v == getMetricValue(k6Data, row.metric, row.field) IN
    CASE row.verb = "ms" -> formatDuration(v)
      [] row.verb = "KB/s" -> Sprintf2f(v.n, v.d * KiB) \o " KB/s"
      [] row.verb = "count" -> Sprintf0f(v.n, v.d)
      [] row.verb = "/s" -> Sprintf2f(v.n, v.d) \o "/s"
      [] row.verb = "success" -> Sprintf2f(100 * v.d - 100 * v.n, v.d) \o "%"

\* faulty variant: a metric of the document that no row reads gets an entry of
\* its own
SummaryMetricsKeepsUnknown(k6Data) ==
    LET read == {MetricRows[i].metric : i \in DOMAIN MetricRows}
        unknown == DOMAIN k6Data.Metrics \ read
    IN  [l \in Labels \cup unknown |->
            IF l \in Labels THEN FormatRow(RowOf(l), k6Data) ELSE "N/A"]

SummaryMetrics(k6Data) == [l \in Labels |-> FormatRow(RowOf(l), k6Data)]

\* faulty variant: a failing check also fails the run
SummaryStatusCountsChecks(k6Data) ==
    LET failRate == getMetricValue(k6Data, "http_req_failed", "rate") IN
    IF failRate.n > 0 \/ (\E i \in DOMAIN k6Data.Checks : k6Data.Checks[i].fails > 0)
    THEN "failed" ELSE "passed"

\* results.Status: "passed" unless failRate > 0
SummaryStatus(k6Data) ==
    LET failRate == getMetricValue(k6Data, "http_req_failed", "rate") IN
    IF failRate.n > 0 THEN "failed" ELSE "passed"

\* the body of the checks loop: the Rate of one check
CheckRate(check) ==
    LET total == AddInt64(check.passes, check.fails, check.unit) IN
    IF total > 0 THEN Sprintf2f(100 * check.passes, total) \o "%" ELSE "100%"

CheckResult(check) ==
    [Passes |-> check.passes, Fails |-> check.fails, Unit |-> check.unit,
     Rate |-> CheckRate(check)]

\* results.Checks[check.Name] = ... for each check in order: the last check
\* of a name wins
SummaryChecks(k6Data) ==
    LET cs == k6Data.Checks
        names == {cs[i].name : i \in DOMAIN cs}
        lastOf(nm) == CHOOSE i \in DOMAIN cs :
                          /\ cs[i].name = nm
                          /\ \A j \in DOMAIN cs : cs[j].name = nm => j <= i
    IN  [nm \in names |-> CheckResult(cs[lastOf(nm)])]

Summarise(k6Data) ==
    [Status |-> SummaryStatus(k6Data),
     TestName |-> "API Performance Test",
     Environment |-> "staging",
     Metrics |-> SummaryMetrics(k6Data),
     Checks |-> SummaryChecks(k6Data)]

-----------------------------------------------------------------------------
(* src/slack.go: the blocks of SendTestResults *)

FieldsPerSection == 10

\* faulty variant: the fields left over after the last full group are dropped
RECURSIVE ChunkLoopNoRemainder(_, _, _)
ChunkLoopNoRemainder(entries, fields, blocks) ==
    IF entries = <<>>
    THEN blocks
    ELSE LET grown == Append(fields, Head(entries)) IN
         IF Len(grown) = FieldsPerSection
         THEN ChunkLoopNoRemainder(Tail(entries), <<>>, Append(blocks, FieldSection(grown)))
         ELSE ChunkLoopNoRemainder(Tail(entries), grown, blocks)

\* "Add metrics in groups of 10": entries still to append, the fields
\* collected so far, the blocks so far
RECURSIVE ChunkLoop(_, _, _)
ChunkLoop(entries, fields, blocks) ==
    IF entries = <<>>
    THEN IF Len(fields) > 0 THEN Append(blocks, FieldSection(fields)) ELSE blocks
    ELSE LET grown == Append(fields, Head(entries)) IN
         IF Len(grown) = FieldsPerSection
         THEN ChunkLoop(Tail(entries), <<>>, Append(blocks, FieldSection(grown)))
         ELSE ChunkLoop(Tail(entries), grown, blocks)

MetricField(name, value) == "*" \o name \o "*\n" \o value

CheckField(name, check) ==
    "*" \o name \o "*\nv " \o SprintfD(check.Passes, check.Unit) \o " | x "
    \o SprintfD(check.Fails, check.Unit) \o " | Rate: " \o check.Rate

StatusEmoji(status) == IF status # "passed" THEN ":x:" ELSE ":white_check_mark:"

\* faulty variant: the checks divider and label are appended even when
\* results.Checks is empty
ResultBlocksAlwaysChecks(res, metricOrder, checkOrder) ==
    LET top == << HeaderBlock("Performance Test Results: " \o res.TestName),
                  DividerBlock,
                  TextSection("*Status:* " \o res.Status \o " " \o StatusEmoji(res.Status)),
                  TextSection("*Environment:* " \o res.Environment),
                  DividerBlock,
                  TextSection("*Test Metrics:*") >>
        metricFields == [i \in DOMAIN metricOrder |->
                            MetricField(metricOrder[i], res.Metrics[metricOrder[i]])]
        withMetrics == ChunkLoop(metricFields, <<>>, top)
        checkFields == [i \in DOMAIN checkOrder |->
                            CheckField(checkOrder[i], res.Checks[checkOrder[i]])]
    IN  ChunkLoop(checkFields, <<>>,
                  withMetrics \o << DividerBlock, TextSection("*Checks Results:*") >>)

\* metricOrder, checkOrder: the order in which range visits the two maps
ResultBlocks(res, metricOrder, checkOrder) ==
    LET top == << HeaderBlock("Performance Test Results: " \o res.TestName),
                  DividerBlock,
                  TextSection("*Status:* " \o res.Status \o " " \o StatusEmoji(res.Status)),
                  TextSection("*Environment:* " \o res.Environment),
                  DividerBlock,
                  TextSection("*Test Metrics:*") >>
        metricFields == [i \in DOMAIN metricOrder |->
                            MetricField(metricOrder[i], res.Metrics[metricOrder[i]])]
        withMetrics == ChunkLoop(metricFields, <<>>, top)
        checkFields == [i \in DOMAIN checkOrder |->
                            CheckField(checkOrder[i], res.Checks[checkOrder[i]])]
    IN  IF Cardinality(DOMAIN res.Checks) > 0
        THEN ChunkLoop(checkFields, <<>>,
                       withMetrics \o << DividerBlock, TextSection("*Checks Results:*") >>)
        ELSE withMetrics

-----------------------------------------------------------------------------
(* Map iteration orders *)

Reverse(s) == [i \in DOMAIN s |-> s[Len(s) + 1 - i]]
Rotate(s, k) == [i \in DOMAIN s |-> s[((i - 1 + k) % Len(s)) + 1]]

LabelSeq == [i \in DOMAIN MetricRows |-> MetricRows[i].label]

\* a range over results.Metrics visits the labels in an unspecified order
MetricOrders == {LabelSeq, Reverse(LabelSeq), Rotate(LabelSeq, 7)}

\* the distinct names of a check list, by first appearance: the keys of
\* results.Checks, which a range visits in this order or another
RECURSIVE DistinctNames(_, _)
DistinctNames(cs, acc) ==
    IF cs = <<>> THEN acc
    ELSE IF \E i \in DOMAIN acc : acc[i] = Head(cs).name
         THEN DistinctNames(Tail(cs), acc)
         ELSE DistinctNames(Tail(cs), Append(acc, Head(cs).name))

-----------------------------------------------------------------------------
(* The values a script hands over *)

Present(values) == [present |-> TRUE, values |-> values]
Absent == [present |-> FALSE, values |-> EmptyMap]

Member(name, opt) == IF opt.present THEN name :> opt.values ELSE EmptyMap

DurationOptions ==
    {Absent, Present(EmptyMap),
     Present(("avg" :> Num(762413, 10000)) @@ ("p(95)" :> NotANumber))}

FailedOptions ==
    {Absent, Present(EmptyMap), Present("rate" :> NotANumber), Present("rate" :> Zero),
     Present("rate" :> Num(1, 20)), Present("rate" :> Num(1, 1))}

ReceivedOptions ==
    {Absent, Present("rate" :> Num(1024, 1)), Present("rate" :> Num(2890872, 1))}

RequestOptions ==
    {Absent, Present(("count" :> Num(130, 1)) @@ ("rate" :> Num(1264272, 100000)))}

ExtraOptions == {Absent, Present("value" :> Num(7, 1))}

MetricMap(dur, failed, recv, reqs, extra) ==
    Member("http_req_duration", dur) @@ Member("http_req_failed", failed)
    @@ Member("data_received", recv) @@ Member("http_reqs", reqs)
    @@ Member("my_custom_gauge", extra)

MetricDocs ==
    {ObjectDoc(MetricMap(dur, failed, recv, reqs, extra), <<>>) :
        dur \in DurationOptions, failed \in FailedOptions, recv \in ReceivedOptions,
        reqs \in RequestOptions, extra \in ExtraOptions}

ManyChecks(n) == [i \in 1..n |-> Check("check " \o ToString(i), i, 1, "1")]

CheckLists ==
    {<<Check("status is 200", p, f, "1")>> : p \in 0..MaxCount, f \in 0..MaxCount}
    \cup {<<Check("status is 200", p, f, "big")>> : p \in 0..(BigLimit - 1), f \in 0..(BigLimit - 1)}
    \cup {<<Check("status is 200", 8, 2, "1"), Check("body size", 0, 0, "1")>>,
          <<Check("status is 200", 8, 2, "1"), Check("status is 200", 1, 1, "1")>>}
    \cup {ManyChecks(n) : n \in 3..MaxChecks}

CheckDocs ==
    {ObjectDoc(m, cs) :
        m \in {EmptyMap, MetricMap(Absent, Present("rate" :> Num(1, 20)), Absent, Absent, Absent)},
        cs \in CheckLists}

SampleDoc ==
    ObjectDoc(MetricMap(Present(("avg" :> Num(762413, 10000)) @@ ("p(95)" :> NotANumber)),
                        Present("rate" :> Zero), Present("rate" :> Num(2890872, 1)),
                        Present(("count" :> Num(130, 1)) @@ ("rate" :> Num(1264272, 100000))),
                        Absent),
              <<Check("status is 200", 8, 2, "1"), Check("body size", 0, 0, "1")>>)

UndecodableDocs ==
    {StringDoc("{}"), StringDoc("{\"metrics\": {}}"), OtherDoc("array"), OtherDoc("func"),
     OtherDoc("mistyped")}

AllDocs == MetricDocs \cup CheckDocs \cup UndecodableDocs \cup {OtherDoc("null"), SampleDoc}

SmallDocs ==
    {ObjectDoc(EmptyMap, <<>>), SampleDoc, StringDoc("{}"), OtherDoc("null"),
     OtherDoc("func"), OtherDoc("mistyped")}

\* the argument of AddTestMetrics: a map of n entries
MetricsOfSize(n) ==
    [kind |-> "metrics",
     entries |-> [i \in 1..n |-> [name |-> "metric " \o ToString(i), value |-> i]]]

AllMetricMaps == {MetricsOfSize(n) : n \in 0..MaxMetrics}
SmallMetricMaps == {MetricsOfSize(0), MetricsOfSize(3), MetricsOfSize(11)}

Configs ==
    {ZeroConfig,
     [SlackChannelID |-> "C-one",
      DashboardURLs |-> <<Entry("K6 Dashboard", "/path-to/k6-dashboard")>>,
      GraphURLs |-> <<Entry("Response Time Trend", "https://your-graph-url")>>],
     [SlackChannelID |-> "C-two",
      DashboardURLs |-> <<Entry("K6 Dashboard", "/path-to/k6-dashboard"),
                          Entry("Host Metrics", "/path-to/hosts")>>,
      GraphURLs |-> <<>>],
     [SlackChannelID |-> "C-two",
      DashboardURLs |-> <<Entry("K6 Dashboard", "/path-to/k6-dashboard"),
                          Entry("Host Metrics", "/path-to/hosts")>>,
      GraphURLs |-> <<Entry("Response Time Trend", "https://your-graph-url"),
                      Entry("Error Rate", "https://your-errors-url")>>]}

MessageTypes == {"Start", "End", "Progress"}

-----------------------------------------------------------------------------
(* src/slack.go: Configure, SendMessage, SendTestResults *)

InitClient ==
    /\ api = NilApi
    /\ channel = ""
    /\ token = ""
    /\ config = ZeroConfig
    /\ dashboardStart = 0
    /\ executionUser = ""
    /\ now = 0
    /\ lastOp = "New"
    /\ lastArg = <<>>
    /\ lastAt = 0
    /\ lastErr = NoError
    /\ lastPosts = <<>>
    /\ results = NoResults
    /\ configured = FALSE
    /\ unconfiguredPosts = 0

Init ==
    /\ impl \in {"channel", "config"}
    /\ data \in IF impl = "channel" THEN SmallDocs ELSE SmallMetricMaps
    /\ InitClient

\* the state a call leaves behind for the caller to see
Returns(op, arg, err, posts) ==
    /\ lastOp' = op
    /\ lastArg' = arg
    /\ lastAt' = now
    /\ lastErr' = err
    /\ lastPosts' = posts
    /\ unconfiguredPosts' = IF api = NilApi THEN unconfiguredPosts + Len(posts)
                            ELSE unconfiguredPosts

ConfigureError(tok, ch) ==
    IF tok = "" THEN ErrEmptyToken
    ELSE IF ch = "" THEN ErrEmptyChannel
    ELSE NoError

\* faulty variant: the channel is stored before the arguments are validated
ConfigureStoresChannelFirst(tok, ch) ==
    LET err == ConfigureError(tok, ch) IN
    /\ impl = "channel"
    /\ channel' = ch
    /\ api' = IF err = NoError THEN tok ELSE api
    /\ Returns("Configure", <<tok, ch>>, err, <<>>)
    /\ configured' = (configured \/ err = NoError)
    /\ UNCHANGED <<impl, token, config, dashboardStart, executionUser, now, data, results>>

\* faulty variant: a rejected Configure call drops the handle
ConfigureDropsHandleOnError(tok, ch) ==
    LET err == ConfigureError(tok, ch) IN
    /\ impl = "channel"
    /\ IF err = NoError
       THEN /\ api' = tok
            /\ channel' = ch
       ELSE /\ api' = NilApi
            /\ UNCHANGED channel
    /\ Returns("Configure", <<tok, ch>>, err, <<>>)
    /\ configured' = (configured \/ err = NoError)
    /\ UNCHANGED <<impl, token, config, dashboardStart, executionUser, now, data, results>>

Configure(tok, ch) ==
    LET err == ConfigureError(tok, ch) IN
    /\ impl = "channel"
    /\ IF err = NoError
       THEN /\ api' = tok
            /\ channel' = ch
       ELSE UNCHANGED <<api, channel>>
    /\ Returns("Configure", <<tok, ch>>, err, <<>>)
    /\ configured' = (configured \/ err = NoError)
    /\ UNCHANGED <<impl, token, config, dashboardStart, executionUser, now, data, results>>

\* the error a call returns after its PostMessage calls
PostError(posts) == posts[Len(posts)].ret

\* faulty variant: PostMessage is called before the api == nil guard
SendMessagePostsUnguarded(message, ret) ==
    <<Post(channel, TextPayload(message), ret)>>

\* faulty variant: a failed PostMessage call is made once more
SendMessagePostsRetried(message, ret) ==
    IF api = NilApi THEN <<>>
    ELSE IF ret # NoError
         THEN <<Post(channel, TextPayload(message), ret),
                Post(channel, TextPayload(message), NoError)>>
         ELSE <<Post(channel, TextPayload(message), ret)>>

\* the PostMessage calls of SendMessage: none when the api == nil guard returns
SendMessagePosts(message, ret) ==
    IF api = NilApi THEN <<>>
    ELSE <<Post(channel, TextPayload(message), ret)>>

SendMessageError(posts) ==
    IF api = NilApi THEN ErrNotConfigured
    ELSE PostError(posts)

SendMessage(message, ret) ==
    LET posts == SendMessagePosts(message, ret) IN
    /\ impl = "channel"
    /\ Returns("SendMessage", <<message>>, SendMessageError(posts), posts)
    /\ UNCHANGED <<impl, clientVars, now, data, results, configured>>

\* faulty variant: the api == nil guard is missing
SendTestResultsPrecheckUnguarded(d) ==
    IF MarshalFails(d) THEN ErrMarshal
    ELSE IF UnmarshalFails(d) THEN ErrUnmarshal
    ELSE NoError

\* the error of the guard and of the marshal / unmarshal round trip
SendTestResultsPrecheck(d) ==
    IF api = NilApi THEN ErrNotConfigured
    ELSE IF MarshalFails(d) THEN ErrMarshal
    ELSE IF UnmarshalFails(d) THEN ErrUnmarshal
    ELSE NoError

\* faulty variant: the results are posted to a fixed channel
SendTestResultsPostsElsewhere(res, metricOrder, checkOrder, ret) ==
    <<Post("C-one", BlocksPayload(ResultBlocks(res, metricOrder, checkOrder)), ret)>>

SendTestResultsPosts(res, metricOrder, checkOrder, ret) ==
    <<Post(channel, BlocksPayload(ResultBlocks(res, metricOrder, checkOrder)), ret)>>

SendTestResults(metricOrder, reverseChecks, ret) ==
    LET pre == SendTestResultsPrecheck(data)
        k6Data == K6DataOf(data)
        res == Summarise(k6Data)
        names == DistinctNames(k6Data.Checks, <<>>)
        checkOrder == IF reverseChecks THEN Reverse(names) ELSE names
        posts == SendTestResultsPosts(res, metricOrder, checkOrder, ret)
    IN
    /\ impl = "channel"
    /\ IF pre # NoError
       THEN /\ Returns("SendTestResults", <<data>>, pre, <<>>)
            /\ results' = NoResults
       ELSE /\ Returns("SendTestResults", <<data>>, PostError(posts), posts)
            /\ results' = res
    /\ UNCHANGED <<impl, clientVars, now, data, configured>>

-----------------------------------------------------------------------------
(* src/unnamed/part_002: Configure(token, config, user), SendMessage(messageType), *)
(* AddTestMetrics                                                               *)

Hour == 3600

ConfigureWithConfigError(tok, cfg) ==
    IF tok = "" THEN ErrEmptyToken ELSE NoError

ConfigureWithConfig(tok, cfg, user) ==
    LET err == ConfigureWithConfigError(tok, cfg) IN
    /\ impl = "config"
    /\ IF err = NoError
       THEN /\ token' = tok
            /\ api' = tok
            /\ config' = cfg
            /\ dashboardStart' = now
            /\ executionUser' = user
       ELSE UNCHANGED <<token, api, config, dashboardStart, executionUser>>
    /\ Returns("Configure", <<tok, cfg, user>>, err, <<>>)
    /\ configured' = (configured \/ err = NoError)
    /\ UNCHANGED <<impl, channel, now, data, results>>

TimeRange(from, to) == "from_ts=" \o ToString(from) \o "&to_ts=" \o ToString(to)

\* faulty variant: the start branch is missing, every range ends at time.Now()
createDashboardLinksAlwaysNow(isStart) ==
    LET endTime == now
        timeRange == TimeRange(dashboardStart, endTime)
    IN  [i \in DOMAIN config.DashboardURLs |->
            Entry(config.DashboardURLs[i].name,
                  config.DashboardURLs[i].url \o "?" \o timeRange)]

\* links[name] = baseURL?from_ts=..&to_ts=.. for every configured dashboard
createDashboardLinks(isStart) ==
    LET endTime == now
        timeRange == IF isStart THEN TimeRange(dashboardStart, dashboardStart + Hour)
                     ELSE TimeRange(dashboardStart, endTime)
    IN  [i \in DOMAIN config.DashboardURLs |->
            Entry(config.DashboardURLs[i].name,
                  config.DashboardURLs[i].url \o "?" \o timeRange)]

ButtonSection(name, url) ==
    [type |-> "section",
     text |-> "View the live test execution on the " \o name \o " dashboard",
     fields |-> <<>>, url |-> url]

ImageBlock(title, url) == [type |-> "image", text |-> title, fields |-> <<>>, url |-> url]

\* links in the order the range visits them
createButtonBlocks(links) ==
    [i \in DOMAIN links |-> ButtonSection(links[i].name, links[i].url)] \o <<DividerBlock>>

RECURSIVE GraphEntries(_)
GraphEntries(graphs) ==
    IF graphs = <<>> THEN <<>>
    ELSE <<ImageBlock(Head(graphs).name, Head(graphs).url), DividerBlock>>
         \o GraphEntries(Tail(graphs))

\* graphs in the order the range visits them
createGraphBlocks(graphs) ==
    <<HeaderBlock(":stopwatch: Test Results Summary"), DividerBlock>> \o GraphEntries(graphs)

\* faulty variant: the end branch appends the dashboard buttons before the
\* graph blocks
MessageBlocksButtonsFirst(messageType, reverseLinks, reverseGraphs) ==
    LET top == <<HeaderBlock("Performance Test " \o messageType),
                 DividerBlock,
                 FieldSection(<<"User: " \o executionUser>>),
                 DividerBlock>>
        ordered(m, rev) == IF rev THEN Reverse(m) ELSE m
    IN  IF messageType = "Start"
        THEN top \o createButtonBlocks(ordered(createDashboardLinks(TRUE), reverseLinks))
        ELSE IF messageType = "End"
        THEN top
             \o createButtonBlocks(ordered(createDashboardLinks(FALSE), reverseLinks))
             \o (IF Len(config.GraphURLs) > 0
                 THEN createGraphBlocks(ordered(config.GraphURLs, reverseGraphs))
                 ELSE <<>>)
        ELSE top

MessageBlocks(messageType, reverseLinks, reverseGraphs) ==
    LET top == <<HeaderBlock("Performance Test " \o messageType),
                 DividerBlock,
                 FieldSection(<<"User: " \o executionUser>>),
                 DividerBlock>>
        ordered(m, rev) == IF rev THEN Reverse(m) ELSE m
    IN  IF messageType = "Start"
        THEN top \o createButtonBlocks(ordered(createDashboardLinks(TRUE), reverseLinks))
        ELSE IF messageType = "End"
        THEN top
             \o (IF Len(config.GraphURLs) > 0
                 THEN createGraphBlocks(ordered(config.GraphURLs, reverseGraphs))
                 ELSE <<>>)
             \o createButtonBlocks(ordered(createDashboardLinks(FALSE), reverseLinks))
        ELSE top

SendMessageOfTypePosts(messageType, reverseLinks, reverseGraphs, ret) ==
    IF api = NilApi THEN <<>>
    ELSE <<Post(config.SlackChannelID,
                BlocksPayload(MessageBlocks(messageType, reverseLinks, reverseGraphs)), ret)>>

SendMessageOfType(messageType, reverseLinks, reverseGraphs, ret) ==
    LET posts == SendMessageOfTypePosts(messageType, reverseLinks, reverseGraphs, ret) IN
    /\ impl = "config"
    /\ Returns("SendMessage", <<messageType>>, SendMessageError(posts), posts)
    /\ UNCHANGED <<impl, clientVars, now, data, results, configured>>

SliceStep == 10

\* "Split fields into groups of 10": for i := 0; i < len(fields); i += 10
RECURSIVE SliceLoop(_, _, _)
SliceLoop(fields, i, blocks) ==
    IF i < Len(fields)
    THEN LET end == IF i + SliceStep > Len(fields) THEN Len(fields) ELSE i + SliceStep
         IN  SliceLoop(fields, i + SliceStep,
                       Append(blocks, FieldSection(SubSeq(fields, i + 1, end))))
    ELSE blocks

\* %v of the value
MetricsField(entry) == "*" \o entry.name \o "*\n" \o ToString(entry.value)

AddTestMetricsBlocks(entries) ==
    SliceLoop([i \in DOMAIN entries |-> MetricsField(entries[i])], 0,
              <<HeaderBlock("Test Metrics"), DividerBlock>>)

AddTestMetricsPosts(entries, ret) ==
    IF api = NilApi THEN <<>>
    ELSE <<Post(config.SlackChannelID, BlocksPayload(AddTestMetricsBlocks(entries)), ret)>>

AddTestMetrics(reverseEntries, ret) ==
    LET entries == IF reverseEntries THEN Reverse(data.entries) ELSE data.entries
        posts == AddTestMetricsPosts(entries, ret)
    IN
    /\ impl = "config"
    /\ Returns("AddTestMetrics", <<data>>, SendMessageError(posts), posts)
    /\ UNCHANGED <<impl, clientVars, now, data, results, configured>>

\* time passes between calls
Tick ==
    /\ impl = "config"
    /\ now + TickSeconds <= MaxNow
    /\ now' = now + TickSeconds
    /\ UNCHANGED <<impl, clientVars, data, lastOp, lastArg, lastAt, lastErr, lastPosts, results,
                   configured, unconfiguredPosts>>

-----------------------------------------------------------------------------
(* Specifications *)

Next ==
    \/ \E tok \in Tokens, ch \in Channels : Configure(tok, ch)
    \/ \E m \in Messages, ret \in TransportResults : SendMessage(m, ret)
    \/ \E mo \in MetricOrders, rc \in BOOLEAN, ret \in TransportResults :
           SendTestResults(mo, rc, ret)
    \/ \E tok \in Tokens, cfg \in Configs, user \in Users : ConfigureWithConfig(tok, cfg, user)
    \/ \E mt \in MessageTypes, rl \in BOOLEAN, rg \in BOOLEAN, ret \in TransportResults :
           SendMessageOfType(mt, rl, rg, ret)
    \/ \E re \in BOOLEAN, ret \in TransportResults : AddTestMetrics(re, ret)
    \/ Tick

Spec == Init /\ [][Next]_vars

\* The summariser and the renderers over all the documents: the script's value
\* is any of AllDocs / AllMetricMaps, the client is configured one way and the
\* transport succeeds.
InitSummary ==
    /\ impl \in {"channel", "config"}
    /\ data \in IF impl = "channel" THEN AllDocs ELSE AllMetricMaps
    /\ InitClient

NextSummary ==
    \/ \E tok \in {"", "xoxb-A"} : Configure(tok, "C-one")
    \/ \E mo \in MetricOrders, rc \in BOOLEAN : SendTestResults(mo, rc, NoError)
    \/ \E tok \in {"", "xoxb-A"} : ConfigureWithConfig(tok, ZeroConfig, "k6-user")
    \/ \E re \in BOOLEAN : AddTestMetrics(re, NoError)

SpecSummary == InitSummary /\ [][NextSummary]_vars

-----------------------------------------------------------------------------
(* Properties *)

SendOps == {"SendMessage", "SendTestResults", "AddTestMetrics"}
PreconditionErrors == {ErrEmptyToken, ErrEmptyChannel, ErrNotConfigured}

\* the credential and the destination of the Configure call recorded in lastArg
ConfigureCredential == lastArg[1]
ConfigureDestination == IF impl = "channel" THEN lastArg[2] ELSE lastArg[2].SlackChannelID

\* C1: every Configure call with an empty credential or an empty destination
\* returns an error.
C1_ConfigureRejectsEmpty ==
    (lastOp = "Configure" /\ (ConfigureCredential = "" \/ ConfigureDestination = ""))
        => lastErr # NoError

\* C2: a Configure call that returns an error leaves every field of the client
\* as it was.
C2_FailedConfigureChangesNothing ==
    [][(lastOp' = "Configure" /\ lastErr' # NoError) => UNCHANGED clientVars]_vars

\* a Configure call has failed on a client configured earlier, which keeps its
\* handle and destination
C2_Witness ==
    /\ lastOp = "Configure"
    /\ lastErr = ErrEmptyChannel
    /\ api = "xoxb-A"
    /\ channel = "C-one"

\* C3: while no Configure call has succeeded, every send returns the
\* 'not configured' error.
C3_SendBeforeConfigure ==
    (~configured /\ lastOp \in SendOps) => lastErr = ErrNotConfigured

\* SendTestResults was called on a client no Configure call has succeeded on
C3_Witness ==
    /\ ~configured
    /\ lastOp = "SendTestResults"
    /\ lastErr = ErrNotConfigured

\* C4: Configure never calls PostMessage, a send that returns a precondition
\* error never does, and no PostMessage call is made while the client is
\* unconfigured.
C4_NoPostWithoutConfiguration ==
    /\ unconfiguredPosts = 0
    /\ lastOp = "Configure" => lastPosts = <<>>
    /\ lastErr \in PreconditionErrors => lastPosts = <<>>
    /\ api = NilApi => lastPosts = <<>>

\* a send was refused on an unconfigured client, and nothing was posted
C4_Witness ==
    /\ api = NilApi
    /\ lastOp = "SendMessage"
    /\ lastErr = ErrNotConfigured
    /\ lastPosts = <<>>

\* a row's metric, or its field, is missing from the document
RowMissing(row) ==
    \/ row.metric \notin DOMAIN data.metrics
    \/ row.field \notin DOMAIN data.metrics[row.metric]

\* SendTestResults has summarised the object document the script holds
Summarised == lastOp = "SendTestResults" /\ results # NoResults /\ data.kind = "object"

\* C5: the summary entry of every missing metric or field is "N/A", and the
\* call returns what the transport returned.
C5_MissingMetricIsNA ==
    Summarised =>
        /\ \A l \in Labels : RowMissing(RowOf(l)) => results.Metrics[l] = "N/A"
        /\ lastErr = lastPosts[1].ret

\* the failure rate of the document: a numeric http_req_failed.rate above zero
PositiveFailRate ==
    /\ "http_req_failed" \in DOMAIN data.metrics
    /\ "rate" \in DOMAIN data.metrics["http_req_failed"]
    /\ data.metrics["http_req_failed"]["rate"].t = "num"
    /\ data.metrics["http_req_failed"]["rate"].n > 0

\* the status block of the message SendTestResults posted
StatusBlock == lastPosts[1].payload.blocks[3]

\* C6: the status is "failed" exactly when http_req_failed.rate is a number
\* above zero, and "passed" otherwise, whatever else the document holds.
C6_StatusFollowsFailRate ==
    Summarised =>
        /\ results.Status = IF PositiveFailRate THEN "failed" ELSE "passed"
        /\ StatusBlock.text = IF PositiveFailRate THEN "*Status:* failed :x:"
                              ELSE "*Status:* passed :white_check_mark:"

\* a document with failing checks and no failure rate is reported as passed
C6_Witness ==
    /\ Summarised
    /\ ~PositiveFailRate
    /\ \E i \in DOMAIN data.checks : data.checks[i].fails > 0
    /\ results.Status = "passed"

\* the check records whose result is kept: the last of each name
KeptChecks == {i \in DOMAIN data.checks :
                  \A j \in DOMAIN data.checks :
                      data.checks[j].name = data.checks[i].name => j <= i}

\* 100 * p / (p + f) with two decimals and "%", or "100%" when p + f = 0
ExpectedRate(p, f) ==
    IF p + f = 0 THEN "100%"
    ELSE LET h == RoundHalfEven(10000 * p, p + f) IN
         ToString(h \div 100) \o "." \o (IF h % 100 < 10 THEN "0" ELSE "")
         \o ToString(h % 100) \o "%"

\* C7: every check's rate is "100%" when it has no passes and no fails, and
\* 100 * passes / (passes + fails) with two decimals otherwise.
C7_CheckRate ==
    Summarised =>
        \A i \in KeptChecks :
            results.Checks[data.checks[i].name].Rate
                = ExpectedRate(data.checks[i].passes, data.checks[i].fails)

\* C7 for the checks whose passes + fails is below 2^63
C7_CheckRateWithoutOverflow ==
    Summarised =>
        \A i \in KeptChecks :
            (data.checks[i].unit = "1" \/ data.checks[i].passes + data.checks[i].fails < BigLimit)
                => results.Checks[data.checks[i].name].Rate
                       = ExpectedRate(data.checks[i].passes, data.checks[i].fails)

\* the blocks of the message the last call posted
PostedBlocks == lastPosts[1].payload.blocks

\* where the text section with this text stands in the posted blocks, or 0
SectionIndex(text) ==
    IF \E i \in DOMAIN PostedBlocks : PostedBlocks[i].text = text
    THEN CHOOSE i \in DOMAIN PostedBlocks : PostedBlocks[i].text = text
    ELSE 0

\* the field groups among the posted blocks from index lo to index hi
RECURSIVE GroupsBetween(_, _)
GroupsBetween(lo, hi) ==
    IF lo > hi THEN <<>>
    ELSE (IF PostedBlocks[lo].text = NilText THEN <<PostedBlocks[lo].fields>> ELSE <<>>)
         \o GroupsBetween(lo + 1, hi)

ChecksStart == SectionIndex("*Checks Results:*")

MetricGroups ==
    GroupsBetween(SectionIndex("*Test Metrics:*") + 1,
                  IF ChecksStart = 0 THEN Len(PostedBlocks) ELSE ChecksStart - 1)

CheckGroups ==
    IF ChecksStart = 0 THEN <<>> ELSE GroupsBetween(ChecksStart + 1, Len(PostedBlocks))

AddedGroups == GroupsBetween(1, Len(PostedBlocks))

\* the groups hold exactly these fields, each once, ten to a group
WellChunked(groups, fields) ==
    LET n == Cardinality(fields) IN
    /\ Len(groups) = (n + 9) \div 10
    /\ \A g \in DOMAIN groups :
          /\ Len(groups[g]) >= 1
          /\ Len(groups[g]) <= 10
          /\ g < Len(groups) => Len(groups[g]) = 10
    /\ \A f \in fields :
          Cardinality({<<g, k>> \in (DOMAIN groups) \X (1..10) :
                          k <= Len(groups[g]) /\ groups[g][k] = f}) = 1
    /\ \A g \in DOMAIN groups : \A k \in DOMAIN groups[g] : groups[g][k] \in fields

\* C8: the metric fields, the check fields and the fields of AddTestMetrics are
\* each rendered in ceil(N/10) groups of at most 10, none empty, all but the
\* last full, every field in exactly one group.
C8_FieldGroups ==
    /\ Summarised =>
          /\ WellChunked(MetricGroups,
                         {MetricField(l, results.Metrics[l]) : l \in Labels})
          /\ WellChunked(CheckGroups,
                         {CheckField(nm, results.Checks[nm]) : nm \in DOMAIN results.Checks})
    /\ (lastOp = "AddTestMetrics" /\ lastPosts # <<>>) =>
          WellChunked(AddedGroups,
                      {MetricsField(data.entries[i]) : i \in DOMAIN data.entries})

\* more than twenty checks were rendered: three groups, the last one partial
C8_Witness ==
    /\ Summarised
    /\ Cardinality(DOMAIN results.Checks) > 20
    /\ Len(CheckGroups) = 3
    /\ Len(CheckGroups[3]) < 10

\* the input decodes into a K6Data
Decodes(d) == d.kind \in {"object", "null"}

\* C9: on a configured client a send makes exactly one PostMessage call and
\* returns what that call returned.
C9_OnePostResultPropagated ==
    (lastOp \in SendOps /\ api # NilApi /\ (lastOp = "SendTestResults" => Decodes(data)))
        => /\ Len(lastPosts) = 1
           /\ lastErr = lastPosts[1].ret

\* a send whose transport call failed returned that failure after one call
C9_Witness ==
    /\ lastOp = "SendTestResults"
    /\ api # NilApi
    /\ Len(lastPosts) = 1
    /\ lastPosts[1].ret = "channel_not_found"
    /\ lastErr = "channel_not_found"

\* C10: on a configured client SendTestResults, given the results as a JSON
\* string, posts one blocks message and returns what the transport returned.
C10_JsonStringIsSent ==
    (lastOp = "SendTestResults" /\ api # NilApi /\ data.kind = "string")
        => /\ Len(lastPosts) = 1
           /\ lastPosts[1].payload.kind = "blocks"
           /\ lastErr = lastPosts[1].ret

\* the input holds a document structure: a JSON object, as a value or as JSON
\* text, or nothing at all (nil)
HoldsStructure(d) == d.kind \in {"object", "mistyped", "string", "null"}

MalformedInputErrors == {ErrMarshal, ErrUnmarshal}

\* C11: on a configured client SendTestResults returns a malformed-input error
\* exactly when its input holds no document structure at all, and then posts
\* nothing.
C11_MalformedInputOnlyWhenUnparseable ==
    (lastOp = "SendTestResults" /\ api # NilApi)
        => /\ lastErr \in MalformedInputErrors <=> ~HoldsStructure(data)
           /\ lastErr \in MalformedInputErrors => lastPosts = <<>>

\* what kind of block stands at each place of the posted message
BlockShape(b) ==
    IF b.type = "section"
    THEN (IF b.text = NilText THEN "fields" ELSE "text")
    ELSE b.type

Shapes == [i \in DOMAIN PostedBlocks |-> BlockShape(PostedBlocks[i])]

Repeat(x, n) == [i \in 1..n |-> x]

HasChecks == DOMAIN results.Checks # {}

TitleStatusEnvironment ==
    /\ PostedBlocks[1].text = "Performance Test Results: " \o results.TestName
    /\ PostedBlocks[3].text
          = "*Status:* " \o results.Status \o " " \o StatusEmoji(results.Status)
    /\ PostedBlocks[4].text = "*Environment:* " \o results.Environment

\* C12 as stated: the posted blocks are a title, a divider, the status text,
\* the environment text, a divider, the metric field groups and, exactly when
\* a check exists, a divider and the check field groups, and nothing else.
C12_BlockSequenceAsStated ==
    Summarised =>
        \E m \in 0..Len(PostedBlocks), k \in 0..Len(PostedBlocks) :
            /\ Shapes = <<"header", "divider", "text", "text", "divider">>
                        \o Repeat("fields", m)
                        \o (IF HasChecks
                            THEN <<"divider">> \o Repeat("fields", k)
                            ELSE <<>>)
            /\ HasChecks => k >= 1
            /\ TitleStatusEnvironment

\* C12: the posted blocks are a title, a divider, the status text, the
\* environment text, a divider, the "Test Metrics" label, the metric field
\* groups and, exactly when a check exists, a divider, the "Checks Results"
\* label and the check field groups; without checks the message ends with the
\* last metric group.
C12_BlockSequence ==
    Summarised =>
        \E m \in 1..Len(PostedBlocks), k \in 0..Len(PostedBlocks) :
            /\ Shapes = <<"header", "divider", "text", "text", "divider", "text">>
                        \o Repeat("fields", m)
                        \o (IF k > 0
                            THEN <<"divider", "text">> \o Repeat("fields", k)
                            ELSE <<>>)
            /\ k > 0 <=> HasChecks
            /\ TitleStatusEnvironment
            /\ PostedBlocks[6].text = "*Test Metrics:*"
            /\ k > 0 => PostedBlocks[6 + m + 2].text = "*Checks Results:*"

\* a document with checks was rendered: both labels and a check group follow
C12_Witness ==
    /\ Summarised
    /\ HasChecks
    /\ Shapes[Len(Shapes)] = "fields"
    /\ \E i \in DOMAIN PostedBlocks : PostedBlocks[i].text = "*Checks Results:*"

NotificationSent(messageType) ==
    /\ impl = "config"
    /\ lastOp = "SendMessage"
    /\ lastArg = <<messageType>>
    /\ lastPosts # <<>>

\* the title, the divider, the user line and the divider every notification
\* of the Config client starts with
NotificationTop(messageType) ==
    /\ Len(PostedBlocks) >= 4
    /\ PostedBlocks[1] = HeaderBlock("Performance Test " \o messageType)
    /\ PostedBlocks[2] = DividerBlock
    /\ PostedBlocks[3] = FieldSection(<<"User: " \o executionUser>>)
    /\ PostedBlocks[4] = DividerBlock

\* the button block of every configured dashboard, its link ending at to
ExpectedButtons(to) ==
    {[type |-> "section",
      text |-> "View the live test execution on the "
               \o config.DashboardURLs[i].name \o " dashboard",
      fields |-> <<>>,
      url |-> config.DashboardURLs[i].url \o "?from_ts=" \o ToString(dashboardStart)
              \o "&to_ts=" \o ToString(to)] : i \in DOMAIN config.DashboardURLs}

\* the posted blocks at places lo .. hi are exactly these blocks, each once
ExactlyAt(lo, hi, expected) ==
    /\ hi - lo + 1 = Cardinality(expected)
    /\ hi <= Len(PostedBlocks)
    /\ {PostedBlocks[i] : i \in lo..hi} = expected

\* C13 as stated: a start notification is the title, a divider, the user line,
\* a divider and one button per configured dashboard URL with the range
\* [configure-time, configure-time + 3600], and nothing else.
C13_StartNotificationAsStated ==
    NotificationSent("Start") =>
        LET n == Len(config.DashboardURLs) IN
        /\ NotificationTop("Start")
        /\ Len(PostedBlocks) = 4 + n
        /\ ExactlyAt(5, 4 + n, ExpectedButtons(dashboardStart + 3600))

\* C13: a start notification is the title, a divider, the user line, a
\* divider, one button per configured dashboard URL with the range
\* [configure-time, configure-time + 3600] whenever it is sent, and a closing
\* divider.
C13_StartNotification ==
    NotificationSent("Start") =>
        LET n == Len(config.DashboardURLs) IN
        /\ NotificationTop("Start")
        /\ Len(PostedBlocks) = 5 + n
        /\ ExactlyAt(5, 4 + n, ExpectedButtons(dashboardStart + 3600))
        /\ PostedBlocks[5 + n] = DividerBlock

\* a start notification with two dashboards, sent some time after Configure
\* and not one hour after it
C13_Witness ==
    /\ NotificationSent("Start")
    /\ Len(config.DashboardURLs) = 2
    /\ lastAt > dashboardStart
    /\ lastAt # dashboardStart + 3600

ImagePlaces == {i \in DOMAIN PostedBlocks : PostedBlocks[i].type = "image"}

ButtonPlaces ==
    {i \in DOMAIN PostedBlocks : PostedBlocks[i].type = "section" /\ PostedBlocks[i].url # ""}

ExpectedImages ==
    {[type |-> "image", text |-> config.GraphURLs[i].name, fields |-> <<>>,
      url |-> config.GraphURLs[i].url] : i \in DOMAIN config.GraphURLs}

\* C14: an end notification holds one image block per configured graph URL,
\* all before the dashboard buttons, and one button per configured dashboard
\* URL with the range [configure-time, time of sending], the start not after
\* the end; with no graph URL configured nothing stands between the opening
\* blocks and the buttons.
C14_EndNotification ==
    NotificationSent("End") =>
        /\ NotificationTop("End")
        /\ Cardinality(ImagePlaces) = Len(config.GraphURLs)
        /\ {PostedBlocks[i] : i \in ImagePlaces} = ExpectedImages
        /\ Cardinality(ButtonPlaces) = Len(config.DashboardURLs)
        /\ {PostedBlocks[i] : i \in ButtonPlaces} = ExpectedButtons(lastAt)
        /\ \A i \in ImagePlaces, j \in ButtonPlaces : i < j
        /\ dashboardStart <= lastAt
        /\ Len(config.GraphURLs) = 0 =>
              /\ Len(PostedBlocks) = 5 + Len(config.DashboardURLs)
              /\ ButtonPlaces = 5..(4 + Len(config.DashboardURLs))

\* an end notification with two graphs and two dashboards, sent after the
\* clock moved on from Configure
C14_Witness ==
    /\ NotificationSent("End")
    /\ Len(config.GraphURLs) = 2
    /\ Len(config.DashboardURLs) = 2
    /\ lastAt > dashboardStart

\* C15: two SendTestResults calls on the same result document render the
\* metric fields in the same order and in the same groups.
C15_SameOrderOnSameDocument ==
    [][(Summarised /\ Summarised' /\ lastArg' = lastArg)
           => MetricGroups' = MetricGroups]_vars

\* the destination, the credential and API handle, and the window start
HeldConfiguration == <<channel, config.SlackChannelID, token, api, dashboardStart>>

\* C16: after the first successful Configure no operation, a further Configure
\* included, changes the destination, the credential or handle, or the window
\* start held by the client.
C16_ConfigurationImmutable ==
    [][configured => HeldConfiguration' = HeldConfiguration]_vars

\* a byte rate auto-scaled: MB from one mebibyte up, KB below, two decimals
ExpectedByteRate(v) ==
    IF v.n >= 1048576 * v.d
    THEN Sprintf2f(v.n, v.d * 1048576) \o " MB"
    ELSE Sprintf2f(v.n, v.d * 1024) \o " KB"

ByteRateLabels == {"Data Received", "Data Sent"}

\* the document gives this row a number
RowNumeric(row) ==
    /\ ~RowMissing(row)
    /\ data.metrics[row.metric][row.field].t = "num"

\* C17: the Data Received and Data Sent entries of the summary show the byte
\* rate auto-scaled, in MB from one mebibyte up and in KB below, with two
\* decimals and the matching unit (1024 gives "1.00 KB", 2890872 "2.76 MB").
C17_ByteRateAutoScaled ==
    /\ ExpectedByteRate(Num(1024, 1)) = "1.00 KB"
    /\ ExpectedByteRate(Num(2890872, 1)) = "2.76 MB"
    /\ Summarised =>
          \A l \in ByteRateLabels :
              RowNumeric(RowOf(l)) =>
                  results.Metrics[l]
                      = ExpectedByteRate(data.metrics[RowOf(l).metric][RowOf(l).field])

\* the destination the client holds
Destination == IF impl = "channel" THEN channel ELSE config.SlackChannelID

SuccessfulConfigure == lastOp = "Configure" /\ lastErr = NoError

\* C18: a successful Configure stores the destination it was given and nothing
\* else changes the stored destination; every PostMessage call of a send goes
\* to the stored destination; SendMessage posts its text argument as it is;
\* and a send leaves every field of the client as it was.
C18_SendsUseConfiguredDestination ==
    [][/\ SuccessfulConfigure' => Destination' = ConfigureDestination'
       /\ ~SuccessfulConfigure' => Destination' = Destination
       /\ lastOp' \in SendOps =>
             /\ \A i \in DOMAIN lastPosts' : lastPosts'[i].channel = Destination
             /\ UNCHANGED clientVars
       /\ (impl = "channel" /\ lastOp' = "SendMessage" /\ lastPosts' # <<>>) =>
             lastPosts'[1].payload = [kind |-> "text", text |-> lastArg'[1], blocks |-> <<>>]
      ]_vars

\* a text was sent to the second destination, which only a successful
\* Configure naming it can have stored
C18_Witness ==
    /\ impl = "channel"
    /\ lastOp = "SendMessage"
    /\ lastArg = <<"run finished">>
    /\ Len(lastPosts) = 1
    /\ lastPosts[1].channel = "C-two"
    /\ lastPosts[1].payload.text = "run finished"

\* C19: once a Configure call has succeeded the client keeps a handle, whatever
\* is called afterwards, and no send returns the "not configured" error.
C19_ConfiguredIsStable ==
    configured =>
        /\ api # NilApi
        /\ lastOp \in SendOps => lastErr # ErrNotConfigured

\* a send on a configured client was refused for its input: the client is
\* still configured
C19_Witness ==
    /\ configured
    /\ lastOp = "SendTestResults"
    /\ lastErr = ErrUnmarshal
    /\ api # NilApi

\* C20: whatever metrics the document holds, lacks or adds, the summary has
\* the same 20 entries and the metrics section is two groups of 10 fields.
C20_TwentyMetricEntries ==
    (lastOp = "SendTestResults" /\ results # NoResults) =>
        /\ DOMAIN results.Metrics = Labels
        /\ Cardinality(DOMAIN results.Metrics) = 20
        /\ Len(MetricGroups) = 2
        /\ \A g \in DOMAIN MetricGroups : Len(MetricGroups[g]) = 10

\* a document with a metric no row reads and without http_req_duration was
\* summarised
C20_Witness ==
    /\ Summarised
    /\ "my_custom_gauge" \in DOMAIN data.metrics
    /\ "http_req_duration" \notin DOMAIN data.metrics
    /\ Len(MetricGroups) = 2

====
